---- MODULE Spec2Model ----
(***************************************************************************)
(* A model of the peggy PEG parser-combinator engine (src/peggy.go).       *)
(*                                                                         *)
(* The heap of *Parser objects is the table `parsers`: a node is named by  *)
(* its index, 0 is the nil pointer.  Input text is a sequence of           *)
(* characters (one-character strings).  An interface{} value is a tagged   *)
(* record: nil, a string, or a []interface{} slice.                        *)
(***************************************************************************)
EXTENDS Integers, Sequences, FiniteSets, TLC

VARIABLES parsers,   \* the constructed Parser objects, in creation order
          decor,     \* number of decorator calls made so far
          root,      \* the parser Parse was last called on (0: none yet)
          text,      \* the input of that call
          out,       \* the outcome of that call
          bindLog,   \* the Bind calls made so far: <<parser, delegate>>, in order
          prev,      \* the outcome of the Parse call before the last one
          calls,     \* src/peg.go: the Parse calls that goroutines are making
          context    \* src/peg.go: the context field (an Info) of every parser

\* the state of the variant src/peg.go, which keeps the matched span and the
\* result in the parser
peg == <<calls, context>>

vars == <<parsers, decor, root, text, out, bindLog, prev, calls, context>>

----------------------------------------------------------------------------
(* Bounds of the exploration *)

MaxNodes == 3        \* parsers constructed (Spec)
MaxDecor == 1        \* decorator calls (Spec)
MaxLen == 3          \* characters of input (Spec, SpecBind)
MaxBindNodes == 3    \* parsers constructed (SpecBind)
MaxBind == 2         \* Bind calls (SpecBind)
MaxShapeNodes == 4   \* parsers constructed (SpecShape)
MaxShapeLen == 4     \* characters of input (SpecShape)
MaxFlat == 2         \* the depth given to Flatten (SpecShape)
MaxHandleNodes == 3  \* parsers constructed (SpecHandle)
MaxHandleLen == 3    \* characters of input (SpecHandle)
MaxHandleDecor == 2  \* decorator calls (SpecHandle)
MaxOps == 2          \* operators of an expression outside parentheses (SpecCalc)
MaxChars == 3        \* characters of a Go string (SpecLiteral)
MaxPegLen == 2       \* characters of input (SpecPeg)

----------------------------------------------------------------------------
(* Characters, strings, values *)

Chars == {"a", "b", " "}

IsSpace(char) == char = " "

Tail0(s, n) == SubSeq(s, n + 1, Len(s))

\* A Go string is a sequence of bytes: here those of "a", of the blank, and
\* the two bytes 195, 169 of U+00E9.  The parsers work on runes.
RECURSIVE Runes(_), StringOf(_)

\* []rune(s): a byte that begins no well-formed character becomes U+FFFD
Runes(s) ==
    IF Len(s) = 0 THEN <<>>
    ELSE IF s[1] = 195 /\ Len(s) >= 2 /\ s[2] = 169
         THEN <<"U+00E9">> \o Runes(Tail0(s, 2))
    ELSE IF s[1] = 97 THEN <<"a">> \o Runes(Tail0(s, 1))
    ELSE IF s[1] = 32 THEN <<" ">> \o Runes(Tail0(s, 1))
    ELSE <<"U+FFFD">> \o Runes(Tail0(s, 1))

\* string(runes)
StringOf(runes) ==
    IF Len(runes) = 0 THEN <<>>
    ELSE (CASE runes[1] = "a" -> <<97>>
            [] runes[1] = " " -> <<32>>
            [] runes[1] = "U+00E9" -> <<195, 169>>
            [] OTHER -> <<239, 191, 189>>) \o StringOf(Tail0(runes, 1))

Nil == [t |-> "nil", s |-> <<>>, v |-> <<>>]

Str(s) == [t |-> "str", s |-> s, v |-> <<>>]

Slice(v) == [t |-> "seq", s |-> <<>>, v |-> v]

\* a []string
Strs(v) == [t |-> "strs", s |-> <<>>, v |-> v]

\* a float64, kept as the exact fraction n/d in lowest terms; d = 0 stands for
\* the values that are not finite
Num(q) == [t |-> "num", s |-> <<>>, v |-> q]

\* an int64
IntVal(n) == [t |-> "int", s |-> <<>>, v |-> <<n, 1>>]

\* a func(float64) float64 that applies op with the right-hand side rhs
Fn(op, rhs) == [t |-> "fn", s |-> op, v |-> rhs]

IsSlice(x) == x.t = "seq"

----------------------------------------------------------------------------
(* Numbers: the arithmetic of float64 on exact fractions, and strconv *)

RECURSIVE GCD(_, _), Pow10(_), DigitsValue(_)

Abs(n) == IF n < 0 THEN -n ELSE n

GCD(a, b) == IF b = 0 THEN a ELSE GCD(b, a % b)

NotFinite == <<0, 0>>

Rat(n, d) ==
    IF d = 0 THEN NotFinite
    ELSE LET g == GCD(Abs(n), Abs(d))
             sg == IF d < 0 THEN -1 ELSE 1
         IN <<sg * (n \div g), sg * (d \div g)>>

\* lhs op rhs
Arith(op, lhs, rhs) ==
    IF lhs[2] = 0 \/ rhs[2] = 0 THEN NotFinite
    ELSE CASE op = <<"+">> -> Rat(lhs[1] * rhs[2] + rhs[1] * lhs[2], lhs[2] * rhs[2])
           [] op = <<"-">> -> Rat(lhs[1] * rhs[2] - rhs[1] * lhs[2], lhs[2] * rhs[2])
           [] op = <<"*">> -> Rat(lhs[1] * rhs[1], lhs[2] * rhs[2])
           [] op = <<"/">> -> Rat(lhs[1] * rhs[2], lhs[2] * rhs[1])
           [] OTHER -> NotFinite

Digits == <<"0", "1", "2", "3", "4", "5", "6", "7", "8", "9">>

IsDigit(char) == \E i \in 1..Len(Digits) : Digits[i] = char

DigitValue(char) == (CHOOSE i \in 1..Len(Digits) : Digits[i] = char) - 1

Pow10(k) == IF k = 0 THEN 1 ELSE 10 * Pow10(k - 1)

\* the number a string of digits denotes
DigitsValue(s) ==
    IF s = <<>> THEN 0
    ELSE 10 * DigitsValue(SubSeq(s, 1, Len(s) - 1)) + DigitValue(s[Len(s)])

AllDigits(s) == \A i \in 1..Len(s) : IsDigit(s[i])

\* strconv.ParseFloat(s, 64) with the error dropped: 0 for a string that is not
\* a number.  Only unsigned decimal numerals without exponent are told apart.
ParseFloat(s) ==
    LET Dots == {i \in 1..Len(s) : s[i] = "."}
    IN IF Dots = {}
       THEN IF s # <<>> /\ AllDigits(s) THEN Rat(DigitsValue(s), 1) ELSE Rat(0, 1)
       ELSE LET dot == CHOOSE i \in Dots : TRUE
                whole == SubSeq(s, 1, dot - 1)
                frac == SubSeq(s, dot + 1, Len(s))
            IN IF Cardinality(Dots) = 1 /\ AllDigits(whole) /\ AllDigits(frac)
                  /\ Len(whole) + Len(frac) > 0
               THEN Rat(DigitsValue(whole) * Pow10(Len(frac)) + DigitsValue(frac),
                        Pow10(Len(frac)))
               ELSE Rat(0, 1)

\* strconv.ParseInt(s, 10, 64) with the error dropped, for unsigned numerals
ParseInt(s) == IF s # <<>> /\ AllDigits(s) THEN DigitsValue(s) ELSE 0

----------------------------------------------------------------------------
(* Parser objects *)

\* the Converter values: a named integer type and its value
FloatConverter(n) == [type |-> "FloatConverter", n |-> n]

IntConverter(n) == [type |-> "IntConverter", n |-> n]

StringConverter(n) == [type |-> "StringConverter", n |-> n]

StringsConverter(n) == [type |-> "StringsConverter", n |-> n]

Float == FloatConverter(1)

\* the constant Int of the source (Int names the integers here)
Integer == IntConverter(2)

String == StringConverter(3)

Strings == StringConverter(4)

NoConverter == [type |-> "nil", n |-> 0]

\* a handler: no handler, the closure of Literal, of Pick, or of As
NoHandler == [h |-> "nil", index |-> 0, c |-> NoConverter]

TextHandler == [h |-> "Text", index |-> 0, c |-> NoConverter]

PickHandler(index) == [h |-> "Pick", index |-> index, c |-> NoConverter]

AsHandler(c) == [h |-> "As", index |-> 0, c |-> c]

newParser(info, allowEmpty, subParsers, parse, str) ==
    [description |-> info, delegate |-> 0, allowEmpty |-> allowEmpty,
     adjacent |-> FALSE, parse |-> parse, str |-> str,
     subParsers |-> subParsers, handler |-> NoHandler,
     flatten |-> FALSE, howFlat |-> 0, debug |-> 0]

AnyOf(str) == newParser("Anyof", FALSE, <<>>, "AnyOf", str)

Deferred == newParser("Proxy", FALSE, <<>>, "nil", <<>>)

Literal(str) ==
    [newParser("Literal", Len(str) = 0, <<>>, "Literal", str)
        EXCEPT !.handler = TextHandler]

OneOf(pv) == newParser("OneOf", FALSE, pv, "OneOf", <<>>)

ZeroOrMoreOf(pv) == newParser("ZeroOrMoreOf", TRUE, pv, "ZeroOrMoreOf", <<>>)

OneOrMoreOf(pv) == newParser("OneOrMoreOf", FALSE, pv, "OneOrMoreOf", <<>>)

Optional(p) == newParser("OneOf", TRUE, <<p>>, "Optional", <<>>)

Sequence(pv) == newParser("Sequence", FALSE, pv, "Sequence", <<>>)

----------------------------------------------------------------------------
(* Parse session: the State object plus what the run has done so far.      *)
(* status "ok": running or returned; "panic": a run-time panic aborted the *)
(* program; "loop": someOf's for-loop spins for ever; "overflow": the      *)
(* recursion never returns.                                                *)

State(noSkip, depth, debug) ==
    [noSkip |-> noSkip, depth |-> depth, debug |-> debug,
     matched |-> <<>>, result |-> Nil]

Session(state) ==
    [state |-> state, status |-> "ok", trace |-> <<>>, active |-> {}]

Event(ev, p, ses, input, space, match, used, result) ==
    [ev |-> ev, node |-> p, input |-> input, space |-> space,
     match |-> match, used |-> used, result |-> result,
     noSkip |-> ses.state.noSkip, depth |-> ses.state.depth,
     debug |-> ses.state.debug]

Log(ses, e) == [ses EXCEPT !.trace = Append(@, e)]

Outcome(match, used, result, ses) ==
    [match |-> match, used |-> used, result |-> result, ses |-> ses]

Abort(ses, status) ==
    Outcome(FALSE, 0, Nil, [ses EXCEPT !.status = status])

----------------------------------------------------------------------------
(* Result shaping and the accessors a handler reads *)

RECURSIVE flatten(_, _, _), flattenFrom(_, _, _, _)

\* flatten that never stops at a depth
flatten_Deep(a, x, depth) ==
    IF ~IsSlice(x) THEN [ok |-> TRUE, a |-> Append(a, x)]
    ELSE flattenFrom(a, x.v, 1, depth)

\* flatten(a, x, depth): [ok |-> FALSE] stands for the panic of
\* reflect.Value.Interface on the zero Value that Elem() yields for a nil entry.
flatten(a, x, depth) ==
    IF depth = 0 THEN [ok |-> TRUE, a |-> Append(a, x)]
    ELSE IF ~IsSlice(x) THEN [ok |-> TRUE, a |-> Append(a, x)]
    ELSE flattenFrom(a, x.v, 1, depth)

flattenFrom(a, v, i, depth) ==
    IF i > Len(v) THEN [ok |-> TRUE, a |-> a]
    ELSE IF v[i].t = "nil" THEN [ok |-> FALSE, a |-> a]
    ELSE LET r == flatten(a, v[i], depth - 1)
         IN IF r.ok THEN flattenFrom(r.a, v, i + 1, depth) ELSE r

StateText(state) == Str(state.matched)

StateLen(state) == IF IsSlice(state.result) THEN Len(state.result.v) ELSE 0

\* State.Get(index) followed by Interface(): [ok |-> FALSE] is a reflect panic.
StateGet(state, index) ==
    IF index = 0
    THEN [ok |-> state.result.t # "nil", x |-> state.result]
    ELSE IF IsSlice(state.result) /\ index <= Len(state.result.v)
         THEN [ok |-> state.result.v[index].t # "nil", x |-> state.result.v[index]]
         ELSE [ok |-> FALSE, x |-> Nil]

\* reflect.Value.String() of State.Get(index): the string itself for a string,
\* a description of the kind for anything else; it does not panic
GetString(state, index) ==
    LET x == state.result.v[index]
    IN CASE x.t = "str" -> x.s
         [] x.t = "nil" -> <<"<invalid Value>">>
         [] x.t = "seq" -> <<"<[]interface {} Value>">>
         [] OTHER -> <<"<Value>">>

\* StringsConverter.convert
StringsConvert(state) == Strs([i \in 1..StateLen(state) |-> GetString(state, i)])

\* Converter.convert, by the type of the converter
convert(c, state) ==
    CASE c.type = "StringConverter" -> [ok |-> TRUE, x |-> StateText(state)]
      [] c.type = "StringsConverter" -> [ok |-> TRUE, x |-> StringsConvert(state)]
      [] c.type = "FloatConverter" -> [ok |-> TRUE, x |-> Num(ParseFloat(state.matched))]
      [] c.type = "IntConverter" -> [ok |-> TRUE, x |-> IntVal(ParseInt(state.matched))]
      [] OTHER -> [ok |-> FALSE, x |-> Nil]

\* reflect.Value.Float() of State.Get(index): it panics on what is no float
GetFloat(state, index) ==
    IF IsSlice(state.result) /\ index <= Len(state.result.v)
    THEN [ok |-> state.result.v[index].t = "num", x |-> state.result.v[index].v]
    ELSE [ok |-> FALSE, x |-> NotFinite]

\* the handler makeOp of TestCalculator: the function that applies the
\* operator Get(1) with the right-hand side Get(2)
makeOp(state) ==
    IF StateLen(state) < 2 \/ ~GetFloat(state, 2).ok THEN [ok |-> FALSE, x |-> Nil]
    ELSE [ok |-> TRUE, x |-> Fn(GetString(state, 1), GetFloat(state, 2).x)]

RECURSIVE evalFrom(_, _, _)

\* the for loop of evalOps, from i on
evalFrom(state, i, val) ==
    IF i >= StateLen(state) THEN [ok |-> TRUE, x |-> Num(val)]
    ELSE IF state.result.v[i + 1].t # "fn" THEN [ok |-> FALSE, x |-> Nil]
    ELSE IF state.result.v[i + 1].s \notin {<<"+">>, <<"-">>, <<"*">>, <<"/">>}
         THEN [ok |-> FALSE, x |-> Nil]
    ELSE evalFrom(state, i + 1,
                  Arith(state.result.v[i + 1].s, val, state.result.v[i + 1].v))

\* the handler evalOps of TestCalculator: Get(1), with the functions that
\* follow it applied from left to right
evalOps(state) ==
    IF ~GetFloat(state, 1).ok THEN [ok |-> FALSE, x |-> Nil]
    ELSE evalFrom(state, 1, GetFloat(state, 1).x)

MakeOpHandler == [h |-> "makeOp", index |-> 0, c |-> NoConverter]

EvalOpsHandler == [h |-> "evalOps", index |-> 0, c |-> NoConverter]

CallHandler(handler, state) ==
    CASE handler.h = "Text" -> [ok |-> TRUE, x |-> StateText(state)]
      [] handler.h = "As" -> convert(handler.c, state)
      [] handler.h = "makeOp" -> makeOp(state)
      [] handler.h = "evalOps" -> evalOps(state)
      [] OTHER -> StateGet(state, handler.index)

\* the number of leading characters of input that are white space
LeadingSpace(input) ==
    LET Stops == {i \in 1..Len(input) : ~IsSpace(input[i])}
    IN IF Stops = {} THEN Len(input)
       ELSE (CHOOSE i \in Stops : \A j \in Stops : i <= j) - 1

\* skipWhite that ignores noSkip
skipWhite_Always(state, input) == LeadingSpace(input)

skipWhite(state, input) ==
    IF state.noSkip = 0 THEN LeadingSpace(input) ELSE 0

----------------------------------------------------------------------------
(* The matching rules and the invocation wrapper.  Every step that follows *)
(* a call is an operator of its own that takes the outcome of the call.    *)

RECURSIVE invoke(_, _, _, _), parseFn(_, _, _, _),
          OneOfFrom(_, _, _, _, _), someOfFrom(_, _, _, _, _, _, _, _, _),
          SequenceFrom(_, _, _, _, _, _, _)

Failed(ses) == Outcome(FALSE, 0, Nil, ses)

AnyOfParse(str, ses, input) ==
    IF Len(str) = 0 THEN Failed(ses)
    ELSE IF Len(input) = 0 THEN Abort(ses, "panic")
    ELSE IF \E i \in 1..Len(str) : input[1] = str[i]
         THEN Outcome(TRUE, 1, Nil, ses)
         ELSE Failed(ses)

\* Literal that reports the bytes of its string as the consumed length
LiteralParse_Bytes(runes, ses, input) ==
    IF Len(runes) > Len(input) THEN Failed(ses)
    ELSE IF \E i \in 1..Len(runes) : runes[i] # input[i] THEN Failed(ses)
    ELSE Outcome(TRUE, Len(StringOf(runes)), Nil, ses)

LiteralParse(runes, ses, input) ==
    IF Len(runes) > Len(input) THEN Failed(ses)
    ELSE IF \E i \in 1..Len(runes) : runes[i] # input[i] THEN Failed(ses)
    ELSE Outcome(TRUE, Len(runes), Nil, ses)

\* OneOf, after child i has reported r
OneOfStep(ns, pv, i, input, r) ==
    CASE r.match \/ r.ses.status # "ok" -> r
      [] OTHER -> OneOfFrom(ns, pv, i + 1, r.ses, input)

\* OneOf preferring the last child that matches: what it reports when child i
\* has reported r and the children after it have reported later
OneOfLast(r, later) ==
    IF r.ses.status # "ok" THEN r
    ELSE IF later.ses.status = "ok" /\ later.match THEN later
    ELSE IF r.match THEN Outcome(TRUE, r.used, r.result, later.ses)
    ELSE later

OneOfFrom_Last(ns, pv, i, ses, input) ==
    IF i > Len(pv) THEN Failed(ses)
    ELSE OneOfLast(invoke(ns, pv[i], ses, input),
                   OneOfFrom(ns, pv, i + 1, invoke(ns, pv[i], ses, input).ses, input))

\* the for loop of OneOf, from child i on
OneOfFrom(ns, pv, i, ses, input) ==
    IF i > Len(pv) THEN Failed(ses)
    ELSE OneOfStep(ns, pv, i, input, invoke(ns, pv[i], ses, input))

\* someOf that records only the first repetition
someOfStep_FirstOnly(ns, mustMatch, pv, i, input, totalUsed, hasMatched, results, r) ==
    CASE r.match /\ r.ses.status = "ok" /\ r.used \in 1..Len(input) ->
            someOfFrom(ns, mustMatch, pv, 1, r.ses, Tail0(input, r.used),
                       totalUsed + r.used, TRUE,
                       IF hasMatched THEN results ELSE Append(results, r.result))
      [] r.ses.status # "ok" -> r
      [] r.ses.status = "ok" /\ r.match /\ r.used > Len(input) ->
            Abort(r.ses, "panic")
      [] r.ses.status = "ok" /\ r.match /\ r.used = 0 -> Abort(r.ses, "loop")
      [] r.ses.status = "ok" /\ ~r.match /\ mustMatch /\ ~hasMatched ->
            Failed(r.ses)
      [] OTHER -> Outcome(TRUE, totalUsed, Slice(results), r.ses)

\* someOf, after candidate i has reported r.  A round that leaves the input as
\* it was repeats itself for ever.
someOfStep(ns, mustMatch, pv, i, input, totalUsed, hasMatched, results, r) ==
    CASE r.match /\ r.ses.status = "ok" /\ r.used \in 1..Len(input) ->
            someOfFrom(ns, mustMatch, pv, 1, r.ses, Tail0(input, r.used),
                       totalUsed + r.used, TRUE, Append(results, r.result))
      [] r.ses.status # "ok" -> r
      [] r.ses.status = "ok" /\ r.match /\ r.used > Len(input) ->
            Abort(r.ses, "panic")
      [] r.ses.status = "ok" /\ r.match /\ r.used = 0 -> Abort(r.ses, "loop")
      [] r.ses.status = "ok" /\ ~r.match /\ mustMatch /\ ~hasMatched ->
            Failed(r.ses)
      [] OTHER -> Outcome(TRUE, totalUsed, Slice(results), r.ses)

\* the inner for loop of someOf, from candidate i on, inside the endless outer
\* loop: with no candidate at all the outer loop spins
someOfFrom(ns, mustMatch, pv, i, ses, input, totalUsed, hasMatched, results) ==
    IF i > Len(pv) THEN Abort(ses, "loop")
    ELSE someOfStep(ns, mustMatch, pv, i, input, totalUsed, hasMatched, results,
                    invoke(ns, pv[i], ses, input))

someOf(ns, mustMatch, ses, pv, input) ==
    someOfFrom(ns, mustMatch, pv, 1, ses, input, 0, FALSE, <<>>)

\* Optional that fails when its child fails
OptionalStep_Strict(r) ==
    IF r.ses.status # "ok" THEN r
    ELSE IF r.match THEN r
    ELSE Failed(r.ses)

\* Optional, after its child has reported r
OptionalStep(r) ==
    IF r.ses.status # "ok" THEN r
    ELSE IF r.match THEN r
    ELSE Outcome(TRUE, 0, Nil, r.ses)

OptionalParse(ns, pv, ses, input) == OptionalStep(invoke(ns, pv[1], ses, input))

\* Sequence that hands every child the input of the first
SequenceStep_NoAdvance(ns, pv, i, input, totalUsed, results, r) ==
    CASE r.match /\ r.ses.status = "ok" ->
            SequenceFrom(ns, pv, i + 1, r.ses, input,
                         totalUsed + r.used, Append(results, r.result))
      [] r.ses.status # "ok" -> r
      [] OTHER -> Failed(r.ses)

\* Sequence, after child i has reported r
SequenceStep(ns, pv, i, input, totalUsed, results, r) ==
    CASE r.match /\ r.ses.status = "ok" /\ r.used <= Len(input) ->
            SequenceFrom(ns, pv, i + 1, r.ses, Tail0(input, r.used),
                         totalUsed + r.used, Append(results, r.result))
      [] r.ses.status # "ok" -> r
      [] r.ses.status = "ok" /\ r.match -> Abort(r.ses, "panic")
      [] OTHER -> Failed(r.ses)

\* the for loop of Sequence, from child i on
SequenceFrom(ns, pv, i, ses, input, totalUsed, results) ==
    IF i > Len(pv) THEN Outcome(TRUE, totalUsed, Slice(results), ses)
    ELSE SequenceStep(ns, pv, i, input, totalUsed, results,
                      invoke(ns, pv[i], ses, input))

\* parser.parse(state, input)
parseFn(ns, parser, ses, input) ==
    CASE parser.parse = "AnyOf" -> AnyOfParse(parser.str, ses, input)
      [] parser.parse = "Literal" -> LiteralParse(parser.str, ses, input)
      [] parser.parse = "OneOf" -> OneOfFrom(ns, parser.subParsers, 1, ses, input)
      [] parser.parse = "ZeroOrMoreOf" -> someOf(ns, FALSE, ses, parser.subParsers, input)
      [] parser.parse = "OneOrMoreOf" -> someOf(ns, TRUE, ses, parser.subParsers, input)
      [] parser.parse = "Optional" -> OptionalParse(ns, parser.subParsers, ses, input)
      [] parser.parse = "Sequence" ->
            SequenceFrom(ns, parser.subParsers, 1, ses, input, 0, <<>>)
      [] OTHER -> Abort(ses, "panic")

\* fast rejection that ignores allowEmpty
FastReject_Always(parser, input) == Len(input) = 0

\* no fast rejection
FastReject_Never(parser, input) == FALSE

\* fast rejection for the parsers that have subsidiary parsers only
FastReject_Combinators(parser, input) ==
    Len(input) = 0 /\ ~parser.allowEmpty /\ parser.subParsers # <<>>

\* the fast rejection of empty input
FastReject(parser, input) == Len(input) = 0 /\ ~parser.allowEmpty

\* a return of invoke that leaves the adjacency counter as the rule left it
Finish_NoRestore(parser, space, r, ses, result) ==
    Outcome(r.match, r.used + space, result, ses)

\* a return of invoke that adds the skipped white space twice
Finish_SpaceTwice(parser, space, r, ses, result) ==
    Outcome(r.match, r.used + space + space, result,
            [ses EXCEPT !.state.noSkip = IF parser.adjacent THEN @ - 1 ELSE @])

\* the return of invoke: the adjacency counter is restored and the skipped
\* white space is added to the consumed length
Finish(parser, space, r, ses, result) ==
    Outcome(r.match, r.used + space, result,
            [ses EXCEPT !.state.noSkip = IF parser.adjacent THEN @ - 1 ELSE @])

\* after the handler has returned hd
Handled(parser, space, r, ses, hd) ==
    IF ~hd.ok THEN Abort(ses, "panic") ELSE Finish(parser, space, r, ses, hd.x)

\* the handler is called on state, which holds the matched span and the result
CallBack(parser, p, space, r, state) ==
    Handled(parser, space, r,
            Log([r.ses EXCEPT !.state = state],
                Event("handler", p, [r.ses EXCEPT !.state = state],
                      state.matched, space, r.match, r.used, state.result)),
            CallHandler(parser.handler, state))

\* a handler that is shown all the input left instead of the matched span
Shaped_WholeInput(parser, p, input, space, r, result) ==
    IF r.match /\ parser.handler.h # "nil"
    THEN IF r.used > Len(input) THEN Abort(r.ses, "panic")
         ELSE CallBack(parser, p, space, r,
                       [r.ses.state EXCEPT !.matched = input, !.result = result])
    ELSE Finish(parser, space, r, r.ses, result)

\* after flattening: result is the value the handler is given
Shaped(parser, p, input, space, r, result) ==
    IF r.match /\ parser.handler.h # "nil"
    THEN IF r.used > Len(input) THEN Abort(r.ses, "panic")
         ELSE CallBack(parser, p, space, r,
                       [r.ses.state EXCEPT !.matched = SubSeq(input, 1, r.used),
                                           !.result = result])
    ELSE Finish(parser, space, r, r.ses, result)

\* after flatten has returned fl
Flattened(parser, p, input, space, r, fl) ==
    IF ~fl.ok THEN Abort(r.ses, "panic")
    ELSE Shaped(parser, p, input, space, r, Slice(fl.a))

\* after the node-specific rule has reported r
Matched(parser, p, input, space, r) ==
    IF r.ses.status # "ok" THEN r
    ELSE IF r.match /\ parser.flatten /\ IsSlice(r.result)
         THEN Flattened(parser, p, input, space, r,
                        flatten(<<>>, r.result, parser.howFlat + 1))
         ELSE Shaped(parser, p, input, space, r, r.result)

\* an invocation is known by its parser, its input and the adjacency counter
Key(p, ses, input) == <<p, input, ses.state.noSkip>>

\* entry of invoke
Enter(p, ses, input) ==
    [Log(ses, Event("call", p, ses, input, 0, FALSE, 0, Nil))
        EXCEPT !.state.depth = @ + 1, !.state.debug = @ - 1,
               !.active = @ \cup {Key(p, ses, input)}]

\* the deferred function of invoke
Leave(ses, key) ==
    [ses EXCEPT !.state.depth = @ - 1, !.state.debug = @ + 1, !.active = @ \ {key}]

\* invoke returns r
Return(p, input, key, r) ==
    IF r.ses.status # "ok" THEN r
    ELSE Outcome(r.match, r.used, r.result,
                 Log(Leave(r.ses, key),
                     Event("ret", p, Leave(r.ses, key), input, 0,
                           r.match, r.used, r.result)))

\* what skipWhite returns in the session ses that invoke has entered
Space(ses, input) == skipWhite(ses.state, input)

\* the session after skipWhite
Skipped(p, ses, input) ==
    Log(ses, Event("skip", p, ses, input, Space(ses, input), FALSE, 0, Nil))

\* the input after the white space has been skipped
Rest(ses, input) ==
    IF Space(ses, input) > 0 THEN Tail0(input, Space(ses, input)) ELSE input

\* the session in which the rule runs: ses and input are those after the skip
EnterRule(parser, p, ses, input, space) ==
    [Log(ses, Event("parse", p, ses, input, space, FALSE, 0, Nil))
        EXCEPT !.state.noSkip = IF parser.adjacent THEN @ + 1 ELSE @]

\* the session in which the rule runs, ses being the one invoke has entered
RuleSession(parser, p, ses, input) ==
    EnterRule(parser, p, Skipped(p, ses, input), Rest(ses, input),
              Space(ses, input))

\* invoke, for a parser that is not a proxy and that is not rejected, in the
\* session ses that invoke has entered: r is what the rule reports
invokeSelf(parser, p, ses, input, r) ==
    IF r.match \/ r.ses.status = "ok"
    THEN Return(p, input, Key(p, ses, input),
                Matched(parser, p, Rest(ses, input), Space(ses, input), r))
    ELSE r

\* parser.invoke(state, input): a proxy hands the call to its delegate.  An
\* invocation that re-enters a parser on the same input and adjacency counter
\* while it is still running never returns.
invoke(ns, p, ses, input) ==
    CASE Key(p, ses, input) \in ses.active -> Abort(ses, "overflow")
      [] Key(p, ses, input) \notin ses.active /\ ns[p].delegate # 0 ->
            Return(p, input, Key(p, ses, input),
                   invoke(ns, ns[p].delegate, Enter(p, ses, input), input))
      [] Key(p, ses, input) \notin ses.active /\ ns[p].delegate = 0
            /\ FastReject(ns[p], Rest(Enter(p, ses, input), input)) ->
            Return(p, input, Key(p, ses, input),
                   Failed(Skipped(p, Enter(p, ses, input), input)))
      [] OTHER ->
            invokeSelf(ns[p], p, Enter(p, ses, input), input,
                       parseFn(ns, ns[p],
                               RuleSession(ns[p], p, Enter(p, ses, input), input),
                               Rest(Enter(p, ses, input), input)))

\* Parse that goes on in the session the call before it has left behind
Parse_Resumed(ns, p, input) ==
    invoke(ns, p, [out.ses EXCEPT !.status = "ok"], input)

\* Parser.Parse(input)
Parse(ns, p, input) ==
    invoke(ns, p, Session(State(0, 0, ns[p].debug)), input)

----------------------------------------------------------------------------
(* The client: it constructs parsers, decorates them, and calls Parse.     *)
(* Leaf matchers are constructed first and in a fixed order (any other     *)
(* order yields the same trees under a renaming of the objects); string    *)
(* arguments of the combinators are the Literal objects asParsers makes of *)
(* them.                                                                   *)

RECURSIVE StringsUpTo(_, _)

StringsUpTo(alphabet, n) ==
    IF n = 0 THEN {<<>>}
    ELSE LET S == StringsUpTo(alphabet, n - 1)
         IN S \cup {Append(s, c) : s \in {t \in S : Len(t) = n - 1}, c \in alphabet}

Inputs == StringsUpTo(Chars, MaxLen)

LiteralStrs == {<<>>, <<"a">>, <<"a", "b">>}

AnyOfStrs == {<<"a", "b">>}

LeafOrder ==
    << <<"nil", <<>> >>, <<"Literal", <<>> >>, <<"Literal", <<"a">> >>,
       <<"Literal", <<"a", "b">> >>, <<"AnyOf", <<"a">> >>, <<"AnyOf", <<"a", "b">> >> >>

IsLeaf(parser) == parser.parse \in {"Literal", "AnyOf", "nil"}

LeafRank(parser) ==
    CHOOSE i \in 1..Len(LeafOrder) : LeafOrder[i] = <<parser.parse, parser.str>>

None == [match |-> FALSE, used |-> 0, result |-> Nil,
         ses |-> [Session(State(0, 0, 0)) EXCEPT !.status = "none"]]

Ids == 1..Len(parsers)

ChildLists == {<<i>> : i \in Ids} \cup {<<i, j>> : i \in Ids, j \in Ids}

New(parser, max) ==
    /\ root = 0
    /\ Len(parsers) < max
    /\ IsLeaf(parser) =>
          \A i \in Ids : IsLeaf(parsers[i]) /\ LeafRank(parsers[i]) < LeafRank(parser)
    /\ parsers' = Append(parsers, parser)
    /\ UNCHANGED <<decor, root, text, out, bindLog, prev, peg>>

Decorate(p, parser, max) ==
    /\ root = 0
    /\ decor < max
    /\ parsers' = [parsers EXCEPT ![p] = parser]
    /\ decor' = decor + 1
    /\ UNCHANGED <<root, text, out, bindLog, prev, peg>>

Adjacent(parser) == [parser EXCEPT !.adjacent = TRUE]

\* Bind that keeps a delegate once it is set
Bind_Once(parser, delegate) ==
    IF parser.delegate # 0 THEN parser ELSE [parser EXCEPT !.delegate = delegate]

Bind(parser, delegate) == [parser EXCEPT !.delegate = delegate]

Describe(parser, info) == [parser EXCEPT !.description = info]

Debug(parser, depth) == [parser EXCEPT !.debug = depth]

Handle(parser, handler) == [parser EXCEPT !.handler = handler]

As(parser, c) == Handle(parser, AsHandler(c))

Pick(parser, index) == Handle(parser, PickHandler(index))

Flatten(parser, depth) == [parser EXCEPT !.flatten = TRUE, !.howFlat = depth]

\* the client calls parsers[p].Parse(input)
CallParse(p, input) ==
    /\ root = 0
    /\ p = Len(parsers) \/ parsers[p].delegate # 0
    /\ root' = p
    /\ text' = input
    /\ out' = Parse(parsers, p, input)
    /\ UNCHANGED <<parsers, decor, bindLog, prev, peg>>

\* the client calls Parse once more, on the same parser with the same input
CallParseAgain ==
    /\ root # 0
    /\ prev = None
    /\ out.ses.status = "ok"
    /\ prev' = out
    /\ out' = Parse(parsers, root, text)
    /\ UNCHANGED <<parsers, decor, root, text, bindLog, peg>>

----------------------------------------------------------------------------
(* Spec: the combinators and adjacency *)

MkAnyOf == \E str \in AnyOfStrs : New(AnyOf(str), MaxNodes)

MkDeferred == New(Deferred, MaxNodes)

MkLiteral == \E str \in LiteralStrs : New(Literal(str), MaxNodes)

MkOneOf == \E pv \in ChildLists : New(OneOf(pv), MaxNodes)

MkZeroOrMoreOf == \E pv \in ChildLists \cup {<<>>} : New(ZeroOrMoreOf(pv), MaxNodes)

MkOneOrMoreOf == \E pv \in ChildLists : New(OneOrMoreOf(pv), MaxNodes)

MkOptional == \E p \in Ids : New(Optional(p), MaxNodes)

MkSequence == \E pv \in ChildLists : New(Sequence(pv), MaxNodes)

DoAdjacent == \E p \in Ids : Decorate(p, Adjacent(parsers[p]), MaxDecor)

DoParse == \E p \in Ids, input \in Inputs : CallParse(p, input)

Init ==
    /\ parsers = <<>>
    /\ decor = 0
    /\ root = 0
    /\ text = <<>>
    /\ out = None
    /\ bindLog = <<>>
    /\ prev = None
    /\ calls = <<>>
    /\ context = <<>>

Next ==
    \/ MkAnyOf \/ MkDeferred \/ MkLiteral \/ MkOneOf \/ MkZeroOrMoreOf
    \/ MkOneOrMoreOf \/ MkOptional \/ MkSequence
    \/ DoAdjacent
    \/ DoParse

Spec == Init /\ [][Next]_vars

----------------------------------------------------------------------------
(* SpecBind: a Deferred parser, the parsers built around it, and Bind *)

BindLiteral == \E str \in {<<"a">>, <<"a", "b">>} : New(Literal(str), MaxBindNodes)

BindOneOf == \E pv \in ChildLists : New(OneOf(pv), MaxBindNodes)

BindOptional == \E p \in Ids : New(Optional(p), MaxBindNodes)

BindSequence == \E pv \in ChildLists : New(Sequence(pv), MaxBindNodes)

DoBind ==
    \E p \in Ids, d \in Ids :
        /\ root = 0
        /\ Len(bindLog) < MaxBind
        /\ parsers[p].parse = "nil"
        /\ parsers' = [parsers EXCEPT ![p] = Bind(parsers[p], d)]
        /\ bindLog' = Append(bindLog, <<p, d>>)
        /\ UNCHANGED <<decor, root, text, out, prev, peg>>

BindParse == \E p \in Ids, input \in Inputs : CallParse(p, input)

InitBind ==
    /\ parsers = <<Deferred>>
    /\ decor = 0
    /\ root = 0
    /\ text = <<>>
    /\ out = None
    /\ bindLog = <<>>
    /\ prev = None
    /\ calls = <<>>
    /\ context = <<>>

NextBind ==
    \/ BindLiteral \/ BindOneOf \/ BindOptional \/ BindSequence
    \/ DoBind
    \/ BindParse

SpecBind == InitBind /\ [][NextBind]_vars

----------------------------------------------------------------------------
(* SpecShape: nested results, Flatten and Pick.  A decorator is applied to  *)
(* the parser just constructed, as in Sequence(...).Flatten(1).Pick(0).     *)

ShapeInputs == StringsUpTo({"a"}, MaxShapeLen)

ShapeLiteral == New(Literal(<<"a">>), MaxShapeNodes)

ShapeOptional == \E p \in Ids : New(Optional(p), MaxShapeNodes)

ShapeSequence == \E pv \in ChildLists : New(Sequence(pv), MaxShapeNodes)

ShapeZeroOrMoreOf == \E p \in Ids : New(ZeroOrMoreOf(<<p>>), MaxShapeNodes)

Newest == Len(parsers)

ShapeFlatten ==
    \E d \in 0..MaxFlat :
        /\ Newest > 0
        /\ \A p \in Ids : ~parsers[p].flatten
        /\ Decorate(Newest, Flatten(parsers[Newest], d), 1)

ShapePick ==
    \E index \in 0..1 :
        /\ Newest > 0
        /\ parsers[Newest].flatten
        /\ Decorate(Newest, Pick(parsers[Newest], index), 2)

ShapeParse == \E p \in Ids, input \in ShapeInputs : CallParse(p, input)

NextShape ==
    \/ ShapeLiteral \/ ShapeOptional \/ ShapeSequence \/ ShapeZeroOrMoreOf
    \/ ShapeFlatten \/ ShapePick
    \/ ShapeParse

SpecShape == Init /\ [][NextShape]_vars

----------------------------------------------------------------------------
(* SpecHandle: handlers and converters, on flattened results and on a bound *)
(* Deferred parser, and a second Parse call on the same parser.             *)

HandleInputs == StringsUpTo({"a", " "}, MaxHandleLen)

HandleDeferred == New(Deferred, MaxHandleNodes)

HandleLiteral == New(Literal(<<"a">>), MaxHandleNodes)

HandleSequence == \E pv \in ChildLists : New(Sequence(pv), MaxHandleNodes)

HandleFlatten ==
    \E d \in 0..1 :
        /\ Newest > 0
        /\ parsers[Newest].parse = "Sequence"
        /\ ~parsers[Newest].flatten
        /\ parsers[Newest].handler = NoHandler
        /\ Decorate(Newest, Flatten(parsers[Newest], d), MaxHandleDecor)

HandleAs ==
    \E p \in Ids, c \in {String, Strings} :
        /\ p = Newest \/ parsers[p].parse = "nil"
        /\ parsers[p].handler = NoHandler
        /\ Decorate(p, As(parsers[p], c), MaxHandleDecor)

HandlePick ==
    \E index \in 0..1 :
        /\ Newest > 0
        /\ parsers[Newest].handler = NoHandler
        /\ Decorate(Newest, Pick(parsers[Newest], index), MaxHandleDecor)

HandleBind ==
    \E p \in Ids, d \in Ids :
        /\ root = 0
        /\ bindLog = <<>>
        /\ parsers[p].parse = "nil"
        /\ parsers' = [parsers EXCEPT ![p] = Bind(parsers[p], d)]
        /\ bindLog' = Append(bindLog, <<p, d>>)
        /\ UNCHANGED <<decor, root, text, out, prev, peg>>

HandleParse == \E p \in Ids, input \in HandleInputs : CallParse(p, input)

HandleParseAgain == CallParseAgain

NextHandle ==
    \/ HandleDeferred \/ HandleLiteral \/ HandleSequence
    \/ HandleFlatten \/ HandleAs \/ HandlePick
    \/ HandleBind
    \/ HandleParse \/ HandleParseAgain

SpecHandle == Init /\ [][NextHandle]_vars

----------------------------------------------------------------------------
(* SpecCalc: the calculator of TestCalculator.  The parsers are those the   *)
(* test constructs, in the order in which it constructs them; the strings   *)
(* it passes to the combinators are the Literal parsers asParsers makes.    *)

Expr1 == 7

CalcGrammar ==
    << AnyOf(Digits),                                           \* 1
       OneOrMoreOf(<<1>>),                                      \* 2  digits
       Optional(2),                                             \* 3
       Literal(<<".">>),                                        \* 4
       Sequence(<<3, 4, 2>>),                                   \* 5
       As(Adjacent(OneOf(<<2, 5>>)), Float),                    \* 6  number
       Debug(Bind(Deferred, 23), 4),                            \* 7  expr1
       Literal(<<"(">>),                                        \* 8
       Literal(<<")">>),                                        \* 9
       Pick(Sequence(<<8, Expr1, 9>>), 2),                      \* 10
       Describe(OneOf(<<6, 10>>), "expr3"),                     \* 11 expr3
       Literal(<<"*">>),                                        \* 12
       Literal(<<"/">>),                                        \* 13
       OneOf(<<12, 13>>),                                       \* 14
       Handle(Sequence(<<14, 11>>), MakeOpHandler),             \* 15
       Describe(ZeroOrMoreOf(<<15>>), "mulops"),                \* 16 mulOps
       Handle(Describe(Flatten(Sequence(<<11, 16>>), 1), "expr2"),
              EvalOpsHandler),                                  \* 17 expr2
       Literal(<<"+">>),                                        \* 18
       Literal(<<"-">>),                                        \* 19
       OneOf(<<18, 19>>),                                       \* 20
       Handle(Sequence(<<20, 17>>), MakeOpHandler),             \* 21
       Describe(ZeroOrMoreOf(<<21>>), "addops"),                \* 22 addOps
       Handle(Describe(Flatten(Sequence(<<17, 22>>), 1), "expr1"),
              EvalOpsHandler) >>                                \* 23 _xpr1

(* Well-formed expressions: an operand is a numeral or an expression in     *)
(* parentheses; an expression is a chain of operands joined by operators.   *)

Numeral(txt) == [k |-> "num", txt |-> txt, e |-> <<>>, rest |-> <<>>]

Paren(e) == [k |-> "par", txt |-> <<>>, e |-> <<e>>, rest |-> <<>>]

\* rest: the links <<operator, operand>> that follow the first operand
Chain(first, rest) == [k |-> "chain", txt |-> <<>>, e |-> <<first>>, rest |-> rest]

Link(op, operand) == <<op, operand>>

Ops == {<<"+">>, <<"-">>, <<"*">>, <<"/">>}

Numerals == {Numeral(<<"2">>), Numeral(<<"1", "2">>), Numeral(<<"1", ".", "5">>)}

Operands ==
    Numerals \cup {Paren(Chain(Numeral(<<"1">>), <<Link(<<"+">>, Numeral(<<"2">>))>>))}

Links == {Link(op, a) : op \in Ops, a \in Operands}

\* the chains of at most MaxOps operators over the operands
Exprs ==
    {Chain(a, r) : a \in Operands, r \in UNION {[1..n -> Links] : n \in 0..MaxOps}}

RECURSIVE Tokens(_), LinkTokens(_), Value(_), ValueFrom(_, _, _, _)

\* the tokens of an expression, in order
Tokens(e) ==
    CASE e.k = "num" -> <<e.txt>>
      [] e.k = "par" -> << <<"(">> >> \o Tokens(e.e[1]) \o << <<")">> >>
      [] OTHER -> Tokens(e.e[1]) \o LinkTokens(e.rest)

LinkTokens(rest) ==
    IF Len(rest) = 0 THEN <<>>
    ELSE <<rest[1][1]>> \o Tokens(rest[1][2]) \o LinkTokens(Tail(rest))

RECURSIVE Join(_, _)

\* the text of the tokens, every token behind sp
Join(tokens, sp) ==
    IF tokens = <<>> THEN <<>> ELSE sp \o tokens[1] \o Join(Tail(tokens), sp)

Spacings == {<<>>, <<" ">>}

Render(e, sp) == Join(Tokens(e), sp)

\* the value of a chain read from left to right: sum is what precedes the term
\* that is being multiplied, sign the operator in front of that term
ValueFrom(sum, sign, term, rest) ==
    IF Len(rest) = 0 THEN Arith(sign, sum, term)
    ELSE IF rest[1][1] \in {<<"*">>, <<"/">>}
         THEN ValueFrom(sum, sign, Arith(rest[1][1], term, Value(rest[1][2])),
                        Tail(rest))
         ELSE ValueFrom(Arith(sign, sum, term), rest[1][1], Value(rest[1][2]),
                        Tail(rest))

\* the arithmetic value of an expression
Value(e) ==
    CASE e.k = "num" -> ParseFloat(e.txt)
      [] e.k = "par" -> Value(e.e[1])
      [] OTHER -> ValueFrom(Rat(0, 1), <<"+">>, Value(e.e[1]), e.rest)

CalcParse ==
    \E e \in Exprs, sp \in Spacings : CallParse(Expr1, Render(e, sp))

CalcParseAgain == CallParseAgain

InitCalc ==
    /\ parsers = CalcGrammar
    /\ decor = 0
    /\ root = 0
    /\ text = <<>>
    /\ out = None
    /\ bindLog = << <<Expr1, 23>> >>
    /\ prev = None
    /\ calls = <<>>
    /\ context = <<>>

NextCalc == CalcParse \/ CalcParseAgain

SpecCalc == InitCalc /\ [][NextCalc]_vars

----------------------------------------------------------------------------
(* SpecLiteral: Literal on Go strings.  A Go string is a sequence of bytes;  *)
(* Literal and Parse convert it to runes, Text converts runes to a string.   *)
(* The strings are those of the sequences of the characters "a", blank and  *)
(* U+00E9, which takes two bytes.                                            *)

Characters == {"a", " ", "U+00E9"}

GoStrings == {StringOf(runes) : runes \in StringsUpTo(Characters, MaxChars)}

LiteralNew == \E s \in GoStrings : New(Literal(Runes(s)), 1)

LiteralCall == \E p \in Ids, s \in GoStrings : CallParse(p, Runes(s))

NextLiteral == LiteralNew \/ LiteralCall

SpecLiteral == Init /\ [][NextLiteral]_vars

----------------------------------------------------------------------------
(* SpecPeg: the variant src/peg.go, whose invoke stores the matched span    *)
(* and the result in parser.context and hands the handler a pointer to it.  *)
(* Two goroutines call Parse on the same parser, a single leaf.  What       *)
(* invoke does before its first access to parser.context touches only the   *)
(* state object and the locals of the call, and is one step.  The stores to *)
(* parser.context are not synchronised: the slice is stored word by word,   *)
(* in either order, and the other goroutine may run between two words.      *)

Goroutines == {1, 2}

PegInputs == StringsUpTo(Chars, MaxPegLen)

\* Literal("a"), and AnyOf("ab").Handle(func(info *Info) interface{} { return
\* info.Text() })
PegParsers == {Literal(<<"a">>), Handle(AnyOf(<<"a", "b">>), TextHandler)}

\* the parser both goroutines call
PegRoot == 1

\* an Info: the slice matched is its data pointer (the call whose input array
\* it points into, and the offset in that array) and its length
Info(data, len, result) == [data |-> data, len |-> len, result |-> result]

\* Info{}
NoInfo == Info(<<0, 0>>, 0, Nil)

\* a value read from memory that holds no text of the program
Garbage == [t |-> "garbage", s |-> <<>>, v |-> <<>>]

\* the input array of the call of goroutine g
InputOf(g) == calls[g].input

\* Info.Text(): string(info.matched), read through the data pointer
InfoText(info) ==
    IF info.len = 0 THEN Str(<<>>)
    ELSE IF info.data[1] = 0 THEN Garbage
    ELSE IF info.data[2] + info.len > Len(InputOf(info.data[1])) THEN Garbage
    ELSE Str(SubSeq(InputOf(info.data[1]), info.data[2] + 1,
                    info.data[2] + info.len))

\* a Parse call: where it is, its input, the locals space, match, used and
\* result of invoke, the words of context.matched it has stored, and the Info
\* its handler was given.  Once pc is "done", used is the length returned.
Call(pc, input, space, match, used, result) ==
    [pc |-> pc, input |-> input, space |-> space, match |-> match,
     used |-> used, result |-> result, stored |-> {}, seen |-> NoInfo]

Idle == Call("idle", <<>>, 0, FALSE, 0, Nil)

\* after parser.parse has reported r
PegMatched(parser, input, space, r) ==
    IF r.match /\ parser.handler # NoHandler
    THEN Call("store", input, space, TRUE, r.used, r.result)
    ELSE Call("done", input, space, r.match, r.used + space, r.result)

\* invoke up to its first access to parser.context, in the state object st
PegEnter(parser, st, input) ==
    IF FastReject(parser, Tail0(input, skipWhite(st, input)))
    THEN Call("done", input, skipWhite(st, input), FALSE, 0, Nil)
    ELSE PegMatched(parser, input, skipWhite(st, input),
                    parseFn(parsers, parser, Session(st),
                            Tail0(input, skipWhite(st, input))))

\* goroutine g calls Parse(input)
PegParse(g) ==
    \E input \in PegInputs :
        /\ calls[g].pc = "idle"
        /\ calls' = [calls EXCEPT ![g] =
                        PegEnter(parsers[PegRoot],
                                 State(0, 1, parsers[PegRoot].debug - 1), input)]
        /\ UNCHANGED <<parsers, decor, root, text, out, bindLog, prev, context>>

\* parser.context.matched = input[:used], one word of it
PegStoreMatched(g) ==
    \E w \in {"data", "len"} \ calls[g].stored :
        /\ calls[g].pc = "store"
        /\ context' = [context EXCEPT ![PegRoot] =
                          IF w = "data"
                          THEN [@ EXCEPT !.data = <<g, calls[g].space>>]
                          ELSE [@ EXCEPT !.len = calls[g].used]]
        /\ calls' = [calls EXCEPT ![g].stored = @ \cup {w}]
        /\ UNCHANGED <<parsers, decor, root, text, out, bindLog, prev>>

\* parser.context.result = result
PegStoreResult(g) ==
    /\ calls[g].pc = "store"
    /\ calls[g].stored = {"data", "len"}
    /\ context' = [context EXCEPT ![PegRoot].result = calls[g].result]
    /\ calls' = [calls EXCEPT ![g].pc = "call"]
    /\ UNCHANGED <<parsers, decor, root, text, out, bindLog, prev>>

\* result = parser.handler(&parser.context), and the return of invoke: both
\* handlers return info.Text()
PegHandler(g) ==
    /\ calls[g].pc = "call"
    /\ calls' = [calls EXCEPT ![g].pc = "done",
                              ![g].seen = context[PegRoot],
                              ![g].result = InfoText(context[PegRoot]),
                              ![g].used = @ + calls[g].space]
    /\ UNCHANGED <<parsers, decor, root, text, out, bindLog, prev, context>>

InitPeg ==
    /\ parsers \in {<<parser>> : parser \in PegParsers}
    /\ decor = 0
    /\ root = 0
    /\ text = <<>>
    /\ out = None
    /\ bindLog = <<>>
    /\ prev = None
    /\ calls = [g \in Goroutines |-> Idle]
    /\ context = <<NoInfo>>

NextPeg ==
    \E g \in Goroutines :
        \/ PegParse(g)
        \/ PegStoreMatched(g)
        \/ PegStoreResult(g)
        \/ PegHandler(g)

SpecPeg == InitPeg /\ [][NextPeg]_vars

----------------------------------------------------------------------------
(* Reading the outcome of the Parse call *)

Parsed == root # 0

Returned == Parsed /\ out.ses.status = "ok"

RootParser == parsers[root]

Kids == RootParser.subParsers

\* the root call skips the leading white space: a session starts with noSkip = 0
Space0 == LeadingSpace(text)

Rest0 == Tail0(text, Space0)

\* the node-specific rule of the root was entered
RuleEntered == Parsed /\ RootParser.delegate = 0 /\ ~FastReject(RootParser, Rest0)

\* the session as a child of the root finds it
InnerSession ==
    [Session(State(IF RootParser.adjacent THEN 1 ELSE 0, 1, RootParser.debug - 1))
        EXCEPT !.active = {<<root, text, 0>>}]

\* what child c of the root reports when invoked on input
Try(c, input) == invoke(parsers, c, InnerSession, input)

SelectEvents(trace, ev, depth) ==
    SelectSeq(trace, LAMBDA e : e.ev = ev /\ e.depth = depth)

\* the invocations made by the root's rule, and their returns
ChildCalls == SelectEvents(out.ses.trace, "call", 1)

ChildRets == SelectEvents(out.ses.trace, "ret", 1)

RECURSIVE SumUsed(_)

SumUsed(rets) == IF rets = <<>> THEN 0 ELSE rets[1].used + SumUsed(Tail(rets))

----------------------------------------------------------------------------
(* C1 *)

\* the input left at the point where the repetition of the root stopped
C1_Cursor == IF out.match THEN Tail0(text, out.used) ELSE Rest0

\* C1: a ZeroOrMoreOf / OneOrMoreOf stops repeating only when every one of its
\* candidates fails at the current cursor.
C1_StopsOnlyWhenAllFail ==
    (Returned /\ RuleEntered /\ RootParser.parse \in {"ZeroOrMoreOf", "OneOrMoreOf"})
    => \A i \in 1..Len(Kids) : ~Try(Kids[i], C1_Cursor).match

----------------------------------------------------------------------------
(* C2 *)

\* C2: every invocation that reports matched = false reports consumed = 0 and
\* an absent value.
C2_FailureReportsZero ==
    Parsed =>
        \A k \in 1..Len(out.ses.trace) :
            LET e == out.ses.trace[k]
            IN (e.ev = "ret" /\ ~e.match) => (e.used = 0 /\ e.result = Nil)

----------------------------------------------------------------------------
(* C4 *)

\* C4: OneOf invokes its children in order on the same input, stops at the
\* first that matches and reports that child's consumed length and value; it
\* fails only after every child has failed.
C4_OneOfFirstMatchWins ==
    (Returned /\ RuleEntered /\ RootParser.parse = "OneOf" /\ Rest0 # <<>>)
    => LET m == Len(ChildCalls)
       IN /\ Len(ChildRets) = m
          /\ m <= Len(Kids)
          /\ \A k \in 1..m : ChildCalls[k].node = Kids[k] /\ ChildCalls[k].input = Rest0
          /\ \A k \in 1..(m - 1) : ~ChildRets[k].match
          /\ out.match <=> (m > 0 /\ ChildRets[m].match)
          /\ out.match => /\ out.used = ChildRets[m].used + Space0
                          /\ out.result = ChildRets[m].result
          /\ ~out.match => m = Len(Kids)
          /\ out.match <=> \E i \in 1..Len(Kids) :
                              /\ Try(Kids[i], Rest0).match
                              /\ \A j \in 1..(i - 1) : Try(Kids[j], Rest0).ses.status = "ok"

\* a OneOf took its first child although its second child matches a longer span
C4_Witness ==
    /\ Returned /\ RuleEntered /\ RootParser.parse = "OneOf" /\ Len(Kids) = 2
    /\ out.match /\ Len(ChildCalls) = 1
    /\ Try(Kids[2], Rest0).match
    /\ Try(Kids[2], Rest0).used > ChildRets[1].used

----------------------------------------------------------------------------
(* C5 *)

\* C5: Parse on a Deferred parser that was never bound aborts the program.
C5_UnboundDeferredAborts ==
    (Parsed /\ RootParser.parse = "nil" /\ RootParser.delegate = 0)
    => out.ses.status = "panic"

----------------------------------------------------------------------------
(* C7 *)

\* C7 as stated: every parser that allows an empty match returns
\* matched = true, consumed = 0 from Parse("").
C7_EmptyAlwaysMatches ==
    (Parsed /\ RootParser.allowEmpty /\ text = <<>>)
    => (out.ses.status = "ok" /\ out.match /\ out.used = 0)

\* the repetition of the root never ends on the empty input
C7_Spins ==
    /\ RootParser.parse = "ZeroOrMoreOf"
    /\ Kids = <<>> \/ Try(Kids[1], <<>>).match

\* C7, amended: a parser that allows an empty match and has no delegate
\* reports matched = true, consumed = 0 whenever Parse("") returns; it returns
\* unless it is a ZeroOrMoreOf without candidates or whose first candidate
\* matches the empty input, or its first child does not return.
C7_EmptyMatchesIfReturns ==
    (Parsed /\ RootParser.allowEmpty /\ RootParser.delegate = 0 /\ text = <<>>)
    => /\ out.ses.status = "ok" => (out.match /\ out.used = 0)
       /\ out.ses.status = "ok" <=>
             /\ ~C7_Spins
             /\ Kids # <<>> => Try(Kids[1], <<>>).ses.status = "ok"

\* a ZeroOrMoreOf with a candidate returned from Parse("")
C7_Witness ==
    /\ Returned /\ RootParser.allowEmpty /\ text = <<>>
    /\ RootParser.parse = "ZeroOrMoreOf" /\ Kids # <<>>
    /\ out.match /\ out.used = 0

----------------------------------------------------------------------------
(* C8 *)

RECURSIVE OpenStack(_, _)

\* the invocations still running after the first k events of the trace, outermost
\* first, each with whether its node-specific rule has been entered
OpenStack(trace, k) ==
    IF k = 0 THEN <<>>
    ELSE LET st == OpenStack(trace, k - 1)
             e == trace[k]
         IN CASE e.ev = "call" -> Append(st, [node |-> e.node, parsing |-> FALSE])
              [] e.ev = "parse" -> [st EXCEPT ![Len(st)].parsing = TRUE]
              [] e.ev = "ret" -> SubSeq(st, 1, Len(st) - 1)
              [] OTHER -> st

\* event k happens while the rule of some Adjacent parser is running
AdjacentRunning(trace, k) ==
    LET st == OpenStack(trace, k - 1)
    IN \E i \in 1..Len(st) : st[i].parsing /\ parsers[st[i].node].adjacent

IsWord(p) ==
    /\ parsers[p].parse = "Literal" /\ parsers[p].delegate = 0
    /\ parsers[p].str # <<>> /\ ~IsSpace(parsers[p].str[1])

\* the root is a Sequence of two non-empty literals
TwoWords ==
    /\ Returned /\ RootParser.parse = "Sequence" /\ RootParser.delegate = 0
    /\ Len(Kids) = 2 /\ IsWord(Kids[1]) /\ IsWord(Kids[2])

Joined == parsers[Kids[1]].str \o parsers[Kids[2]].str

Spaced == parsers[Kids[1]].str \o <<" ">> \o parsers[Kids[2]].str

\* C8: no invocation made while the rule of an Adjacent parser is running skips
\* white space; a Sequence of two literals matches them written together, and
\* matches them separated by a blank exactly when it is not Adjacent.
C8_AdjacentSuppressesSkip ==
    Parsed =>
       /\ \A k \in 1..Len(out.ses.trace) :
             (out.ses.trace[k].ev = "skip" /\ AdjacentRunning(out.ses.trace, k))
             => out.ses.trace[k].space = 0
       /\ (TwoWords /\ text = Joined) => out.match
       /\ (TwoWords /\ text = Spaced) => (out.match <=> ~RootParser.adjacent)

\* an Adjacent Sequence of two literals refused them separated by a blank
C8_Witness ==
    /\ TwoWords /\ RootParser.adjacent /\ text = Spaced /\ ~out.match
    /\ \E k \in 1..Len(out.ses.trace) :
          /\ out.ses.trace[k].ev = "skip" /\ AdjacentRunning(out.ses.trace, k)
          /\ out.ses.trace[k].input # <<>> /\ IsSpace(out.ses.trace[k].input[1])

----------------------------------------------------------------------------
(* C9 *)

\* C9: a Sequence invokes child k+1 where the span of child k ended, invokes no
\* child after one that failed, matches iff all its children matched, and then
\* reports their values in order and the sum of their consumed lengths plus its
\* own skipped white space.
C9_SequenceChains ==
    (Returned /\ RuleEntered /\ RootParser.parse = "Sequence" /\ Rest0 # <<>>)
    => LET m == Len(ChildCalls)
           n == Len(Kids)
       IN /\ Len(ChildRets) = m
          /\ m <= n
          /\ \A k \in 1..m : ChildCalls[k].node = Kids[k]
          /\ m > 0 => ChildCalls[1].input = Rest0
          /\ \A k \in 1..(m - 1) :
                /\ ChildRets[k].match
                /\ ChildCalls[k + 1].input = Tail0(ChildCalls[k].input, ChildRets[k].used)
          /\ out.match <=> (m = n /\ \A k \in 1..m : ChildRets[k].match)
          /\ out.match =>
                /\ out.result = Slice([k \in 1..n |-> ChildRets[k].result])
                /\ out.used = SumUsed(ChildRets) + Space0

\* a Sequence of two children matched, the second one further on in the input
C9_Witness ==
    /\ Returned /\ RuleEntered /\ RootParser.parse = "Sequence" /\ Len(Kids) = 2
    /\ out.match /\ Space0 > 0
    /\ ChildRets[1].used > 0 /\ ChildRets[2].used > 0
    /\ Len(out.result.v) = 2

----------------------------------------------------------------------------
(* C3, C10 *)

\* the parsers with the root stripped of Flatten and of its handler
Undecorated ==
    [parsers EXCEPT ![root].flatten = FALSE, ![root].howFlat = 0,
                    ![root].handler = NoHandler]

\* the raw result of the root: what its rule produced
Raw == Parse(Undecorated, root, text).result

HandlerEvents ==
    SelectSeq(out.ses.trace, LAMBDA e : e.ev = "handler" /\ e.node = root /\ e.depth = 1)

\* the value the root passed to its handler or, without a handler, returned
Shown ==
    IF RootParser.handler.h # "nil" THEN HandlerEvents[Len(HandlerEvents)].result
    ELSE out.result

\* the root is decorated with Flatten(d) and matched a sequence
FlattenedBy(d) ==
    /\ Returned /\ RootParser.delegate = 0 /\ out.match
    /\ RootParser.flatten /\ RootParser.howFlat = d
    /\ IsSlice(Raw)

RECURSIVE Leaves(_), Collapse(_, _), AllPresent(_), Nesting(_)

\* the non-sequence entries of the sequence v at any depth, depth first
Leaves(v) ==
    IF v = <<>> THEN <<>>
    ELSE (IF IsSlice(v[1]) THEN Leaves(v[1].v) ELSE <<v[1]>>) \o Leaves(Tail(v))

\* the sequence v with d levels of nesting collapsed
Collapse(v, d) ==
    IF v = <<>> THEN <<>>
    ELSE (IF d > 0 /\ IsSlice(v[1]) THEN Collapse(v[1].v, d - 1) ELSE <<v[1]>>)
         \o Collapse(Tail(v), d)

AllPresent(x) ==
    /\ x.t # "nil"
    /\ IsSlice(x) => \A i \in 1..Len(x.v) : AllPresent(x.v[i])

\* the levels of sequences in x
Nesting(x) ==
    IF ~IsSlice(x) THEN 0
    ELSE IF x.v = <<>> THEN 1
    ELSE 1 + Nesting(x.v[CHOOSE i \in 1..Len(x.v) :
                             \A j \in 1..Len(x.v) : Nesting(x.v[i]) >= Nesting(x.v[j])])

\* C3: Flatten(0) flattens completely: the value shown is the flat sequence of
\* all non-sequence entries of the raw result.
C3_FlattenZeroComplete ==
    FlattenedBy(0) =>
        /\ Shown = Slice(Leaves(Raw.v))
        /\ \A i \in 1..Len(Shown.v) : ~IsSlice(Shown.v[i])

\* C10: Flatten(d), d >= 1, on a raw result with all entries present collapses
\* exactly d levels: sequences at most d levels below the top are replaced by
\* their entries in place, deeper ones stay single entries.
C10_FlattenCollapsesLevels ==
    \A d \in 1..MaxFlat :
        (FlattenedBy(d) /\ AllPresent(Raw)) => Shown = Slice(Collapse(Raw.v, d))

\* Flatten(1) met three levels of sequences: one was collapsed, one was kept
C10_Witness ==
    /\ FlattenedBy(1) /\ AllPresent(Raw) /\ Nesting(Raw) = 3
    /\ Len(Shown.v) > Len(Raw.v)
    /\ \E i \in 1..Len(Shown.v) : IsSlice(Shown.v[i]) /\ Shown.v[i].v # <<>>

----------------------------------------------------------------------------
(* C6 *)

BindCalls(p) == SelectSeq(bindLog, LAMBDA b : b[1] = p)

----------------------------------------------------------------------------
(* C11 *)

\* the root is an Optional whose rule ran and returned
OptionalRan == Returned /\ RuleEntered /\ RootParser.parse = "Optional"

\* C11 as stated: when the child of an Optional fails, the Optional reports
\* (true, 0, absent), whatever the input.
C11_OptionalZeroOnFailure ==
    (OptionalRan /\ ChildRets # <<>> /\ ~ChildRets[1].match)
    => (out.match /\ out.used = 0 /\ out.result = Nil)

\* C11, amended: an Optional invokes its child once, on the input left after
\* its own white space; it always matches; if the child failed its value is
\* absent and it consumed its own skipped white space only; if the child
\* matched it reports the child's value and the child's consumed length plus
\* its own skipped white space.
C11_OptionalRule ==
    OptionalRan =>
       /\ Len(ChildCalls) = 1 /\ Len(ChildRets) = 1
       /\ ChildCalls[1].node = Kids[1] /\ ChildCalls[1].input = Rest0
       /\ out.match
       /\ ~ChildRets[1].match => (out.used = Space0 /\ out.result = Nil)
       /\ ChildRets[1].match => /\ out.used = ChildRets[1].used + Space0
                                /\ out.result = ChildRets[1].result

\* an Optional matched behind white space although its child failed
C11_Witness ==
    /\ OptionalRan /\ ~ChildRets[1].match
    /\ Space0 > 0 /\ Rest0 # <<>>
    /\ out.match /\ out.used = Space0 /\ out.result = Nil

----------------------------------------------------------------------------
(* C12 *)

Trace == out.ses.trace

HasHandler(p) == parsers[p].handler # NoHandler

\* the event at which the rule of the invocation that is running at event k,
\* at the given depth, was entered
OpenParse(k, depth) ==
    LET Js == {j \in 1..(k - 1) : Trace[j].ev = "parse" /\ Trace[j].depth = depth}
    IN IF Js = {} THEN 0 ELSE CHOOSE j \in Js : \A i \in Js : i <= j

\* event k is a call of the handler of its node, made in the way C12 describes
HandlerCallOk(k) ==
    LET e == Trace[k]
        j == OpenParse(k, e.depth)
    IN /\ HasHandler(e.node)
       /\ e.match
       /\ j > 0
       /\ Trace[j].node = e.node
       /\ e.used <= Len(Trace[j].input)
       /\ e.input = SubSeq(Trace[j].input, 1, e.used)
       /\ Trace[j - 1].ev = "skip" /\ Trace[j - 1].node = e.node
       /\ Trace[j].input = Tail0(Trace[j - 1].input, Trace[j].space)
       /\ k < Len(Trace) =>
             /\ Trace[k + 1].ev = "ret" /\ Trace[k + 1].node = e.node
             /\ Trace[k + 1].depth = e.depth - 1
             /\ Trace[k + 1].match
             /\ Trace[k + 1].used = e.used + Trace[j].space
             /\ Trace[k + 1].result =
                   CallHandler(parsers[e.node].handler,
                               [State(0, 0, 0) EXCEPT !.matched = e.input,
                                                      !.result = e.result]).x

\* event k, the return of a match, comes straight after the call of the handler
HandledBefore(k) ==
    /\ k > 1
    /\ Trace[k - 1].ev = "handler"
    /\ Trace[k - 1].node = Trace[k].node
    /\ Trace[k - 1].depth = Trace[k].depth + 1

\* C12 as stated: every invocation of a node that has a handler and matches
\* calls the handler, once, and returns what the handler returns.
C12_HandlerOnEveryMatch ==
    Parsed =>
        \A k \in 1..Len(Trace) :
            (Trace[k].ev = "ret" /\ Trace[k].match /\ HasHandler(Trace[k].node))
            => HandledBefore(k)

\* C12, amended: a node that has a handler and no delegate calls it in every
\* invocation that matches, once, after flattening, and in no other; Text() is
\* then the first `used` characters of the input left after the node's own
\* skipped white space, Get(0) is the flattened value, and the invocation
\* returns what the handler returns.  A node that has a delegate never calls
\* its handler.
C12_HandlerCalledOnMatch ==
    Parsed =>
       /\ \A k \in 1..Len(Trace) :
             /\ Trace[k].ev = "handler" =>
                   (parsers[Trace[k].node].delegate = 0 /\ HandlerCallOk(k))
             /\ (Trace[k].ev = "ret" /\ Trace[k].match /\ HasHandler(Trace[k].node)
                 /\ parsers[Trace[k].node].delegate = 0)
                => HandledBefore(k)
             /\ (Trace[k].ev = "ret" /\ ~Trace[k].match) => ~HandledBefore(k)
       /\ (Returned /\ out.match /\ HasHandler(root) /\ RootParser.delegate = 0
           /\ RootParser.flatten /\ IsSlice(Raw))
          => Shown = Slice(flatten(<<>>, Raw, RootParser.howFlat + 1).a)

\* a flattened Sequence behind white space called its handler on a span that is
\* shorter than the input left, and on a value that flattening had changed
C12_Witness ==
    /\ Returned /\ out.match /\ HasHandler(root) /\ RootParser.delegate = 0
    /\ RootParser.parse = "Sequence" /\ RootParser.flatten /\ IsSlice(Raw)
    /\ Shown # Raw
    /\ Space0 > 0
    /\ out.used < Len(text)
    /\ HandledBefore(Len(Trace))
    /\ Trace[Len(Trace) - 1].input = SubSeq(Rest0, 1, out.used - Space0)

----------------------------------------------------------------------------
(* C13 *)

\* Parse was called a second time on the same parser with the same input
ParsedTwice == Parsed /\ prev # None

----------------------------------------------------------------------------
(* C14 *)

\* every text of a well-formed expression, with the value of the expression
Oracle == {<<Render(e, sp), Value(e)>> : e \in Exprs, sp \in Spacings}

\* C14: Parse of a well-formed expression returns its arithmetic value: '*'
\* and '/' before '+' and '-', equal precedence from left to right,
\* parentheses to any depth, white space between tokens ignored.
C14_CalculatorValue ==
    (Parsed /\ root = Expr1) =>
        \A pair \in Oracle :
            pair[1] = text =>
                /\ out.ses.status = "ok"
                /\ out.match
                /\ out.result = Num(pair[2])

----------------------------------------------------------------------------
(* C15 *)

\* the values of the invocations in trace that were made by the root's rule
\* and matched, in the order in which they returned
Recorded(trace) ==
    LET hits == SelectSeq(SelectEvents(trace, "ret", 1), LAMBDA e : e.match)
    IN [k \in 1..Len(hits) |-> hits[k].result]

\* the parsers, with the root made the ZeroOrMoreOf of its candidates
ZeroTwin ==
    [parsers EXCEPT ![root] =
        [ZeroOrMoreOf(Kids) EXCEPT !.adjacent = RootParser.adjacent]]

\* the parsers, with the root made the OneOrMoreOf of its candidates
OneTwin ==
    [parsers EXCEPT ![root] =
        [OneOrMoreOf(Kids) EXCEPT !.adjacent = RootParser.adjacent]]

IsRepetition(parser) ==
    /\ parser.parse \in {"ZeroOrMoreOf", "OneOrMoreOf"}
    /\ parser.delegate = 0 /\ ~parser.flatten /\ parser.handler = NoHandler

\* C15: where the loop terminates, ZeroOrMoreOf matches and its value is the
\* sequence of the values of the repetitions that matched, in match order;
\* OneOrMoreOf over the same candidates, on a non-empty input, reports the
\* consumed length and the value of ZeroOrMoreOf if a repetition matched, and
\* fails if none did.
C15_RepetitionValues ==
    (Returned /\ IsRepetition(RootParser)) =>
        LET zero == Parse(ZeroTwin, root, text)
            one == Parse(OneTwin, root, text)
        IN /\ zero.ses.status = "ok" =>
                /\ zero.match
                /\ zero.result = Slice(Recorded(zero.ses.trace))
           /\ (one.ses.status = "ok" /\ zero.ses.status = "ok" /\ text # <<>>) =>
                IF Recorded(zero.ses.trace) # <<>>
                THEN one.match /\ one.used = zero.used /\ one.result = zero.result
                ELSE ~one.match

\* a OneOrMoreOf matched twice, the second time behind white space
C15_Witness ==
    /\ Returned /\ IsRepetition(RootParser)
    /\ RootParser.parse = "OneOrMoreOf"
    /\ out.match
    /\ Len(Recorded(out.ses.trace)) = 2
    /\ out.used = 3
    /\ out = Parse(OneTwin, root, text)

----------------------------------------------------------------------------
(* C16 *)

\* x is a sequence of string values
AllStrings(x) == IsSlice(x) /\ \A i \in 1..Len(x.v) : x.v[i].t = "str"

\* C16: a node decorated with As(Strings) that matches with a sequence of n
\* string values yields the list of these n strings, not its matched text.
C16_AsStringsList ==
    (Returned /\ out.match /\ RootParser.delegate = 0
     /\ RootParser.handler = AsHandler(Strings) /\ AllStrings(Shown))
    => out.result = Strs([i \in 1..Len(Shown.v) |-> Shown.v[i].s])

----------------------------------------------------------------------------
(* C17 *)

\* Literal(s).Parse(s) was called, s being a non-empty Go string whose first
\* character is no white space
RoundTrip(s) ==
    /\ Parsed /\ RootParser = Literal(Runes(s)) /\ text = Runes(s)
    /\ Len(s) > 0 /\ ~IsSpace(Runes(s)[1])

\* C17: Literal(s).Parse(s) returns (true, the number of characters of s, s)
\* for every non-empty string s that does not begin with white space; the
\* number of characters is not the number of bytes.
C17_LiteralRoundTrip ==
    \A s \in GoStrings :
        RoundTrip(s) =>
            /\ out.ses.status = "ok" /\ out.match
            /\ out.used = Len(Runes(s))
            /\ out.result.t = "str" /\ StringOf(out.result.s) = s

\* the round trip of a string that has more bytes than characters
C17_Witness ==
    \E s \in GoStrings :
        /\ RoundTrip(s)
        /\ out.match /\ out.used = 2 /\ Len(s) = 3
        /\ StringOf(out.result.s) = s

----------------------------------------------------------------------------
(* C18 *)

\* the invocation that event e begins finds no input behind the white space
NothingLeft(e) ==
    /\ e.ev = "call"
    /\ ~parsers[e.node].allowEmpty
    /\ (IF e.noSkip = 0 THEN LeadingSpace(e.input) ELSE 0) = Len(e.input)

\* the invocation that begins at event k skips the white space and returns
\* (false, 0, absent), and does nothing else
RejectedAt(k) ==
    /\ k + 2 <= Len(Trace)
    /\ Trace[k + 1].ev = "skip" /\ Trace[k + 1].node = Trace[k].node
    /\ Trace[k + 2].ev = "ret" /\ Trace[k + 2].node = Trace[k].node
    /\ ~Trace[k + 2].match /\ Trace[k + 2].used = 0 /\ Trace[k + 2].result = Nil

\* the invocation that begins at event k hands the input to the delegate
DelegatedAt(k) ==
    /\ k + 1 <= Len(Trace)
    /\ Trace[k + 1].ev = "call"
    /\ Trace[k + 1].node = parsers[Trace[k].node].delegate
    /\ Trace[k + 1].input = Trace[k].input

\* C18 as stated: an invocation of a node of any kind that does not allow the
\* empty match, with no input left behind the white space, fails with
\* (false, 0, absent) and enters no rule, child, delegate or handler.
C18_FastRejectEveryKind ==
    Parsed => \A k \in 1..Len(Trace) : NothingLeft(Trace[k]) => RejectedAt(k)

\* C18, amended: so it is for every node without a delegate; a node with a
\* delegate invokes the delegate on its input, whatever is left of it (a
\* delegate that is being invoked on that input already is invoked without end).
C18_FastRejectUnlessDelegate ==
    Parsed =>
        \A k \in 1..Len(Trace) :
            /\ (NothingLeft(Trace[k]) /\ parsers[Trace[k].node].delegate = 0)
               => RejectedAt(k)
            /\ (Trace[k].ev = "call" /\ parsers[Trace[k].node].delegate # 0)
               => \/ DelegatedAt(k)
                  \/ k = Len(Trace) /\ out.ses.status = "overflow"

\* a bound Deferred was invoked on white space only: it invoked its delegate,
\* and the delegate was rejected behind the white space
C18_Witness ==
    /\ Returned /\ RootParser.delegate # 0
    /\ text # <<>> /\ Space0 = Len(text)
    /\ NothingLeft(Trace[1]) /\ DelegatedAt(1)
    /\ NothingLeft(Trace[2]) /\ RejectedAt(2)
    /\ parsers[Trace[2].node].delegate = 0
    /\ ~out.match

----------------------------------------------------------------------------
(* C19 *)

\* the root is decorated with Flatten, and its rule matched with a sequence
\* that holds an absent value
FlattenMeetsAbsent ==
    /\ Parsed /\ RootParser.delegate = 0 /\ RootParser.flatten
    /\ Parse(Undecorated, root, text).ses.status = "ok"
    /\ Parse(Undecorated, root, text).match
    /\ IsSlice(Raw) /\ ~AllPresent(Raw)

\* C19: flattening a sequence that holds absent values does not fault: the
\* parse goes on, and Flatten(d), d >= 1, keeps every absent value among the
\* entries it collapses as one entry at its place.
C19_FlattenKeepsAbsent ==
    FlattenMeetsAbsent =>
        /\ out.ses.status = "ok" /\ out.match
        /\ RootParser.howFlat >= 1 => Shown = Slice(Collapse(Raw.v, RootParser.howFlat))

----------------------------------------------------------------------------
(* C20 *)

RECURSIVE CanMatchEmpty(_, _), LeftClosure(_, _)

\* parser p can match without consuming input; n bounds the delegations and
\* children followed
CanMatchEmpty(p, n) ==
    IF n = 0 THEN FALSE
    ELSE LET parser == parsers[p]
             kid(i) == CanMatchEmpty(parser.subParsers[i], n - 1)
             some == \E i \in 1..Len(parser.subParsers) : kid(i)
         IN CASE parser.delegate # 0 -> CanMatchEmpty(parser.delegate, n - 1)
              [] parser.parse = "Literal" -> parser.str = <<>>
              [] parser.parse \in {"Optional", "ZeroOrMoreOf"} -> TRUE
              [] parser.parse \in {"OneOf", "OneOrMoreOf"} -> some
              [] parser.parse = "Sequence" ->
                    \A i \in 1..Len(parser.subParsers) : kid(i)
              [] OTHER -> FALSE

Nullable(p) == CanMatchEmpty(p, Len(parsers) + 1)

\* the parsers that p may invoke before it has consumed input
LeftCalls(p) ==
    LET parser == parsers[p]
        pv == parser.subParsers
    IN IF parser.delegate # 0 THEN {parser.delegate}
       ELSE IF parser.parse = "Sequence"
            THEN {pv[i] : i \in {j \in 1..Len(pv) : \A k \in 1..(j - 1) : Nullable(pv[k])}}
       ELSE {pv[i] : i \in 1..Len(pv)}

\* the parsers reached from those of S before input is consumed
LeftClosure(S, n) ==
    IF n = 0 THEN S
    ELSE LeftClosure(S \cup UNION {LeftCalls(q) : q \in S}, n - 1)

LeftRecursive ==
    \E p \in Ids : p \in LeftClosure(LeftCalls(p), Len(parsers))

NullableCandidate ==
    \E p \in Ids :
        /\ parsers[p].parse \in {"ZeroOrMoreOf", "OneOrMoreOf"}
        /\ \E i \in 1..Len(parsers[p].subParsers) : Nullable(parsers[p].subParsers[i])

\* C20: Parse terminates on a tree without left recursion in which no
\* candidate of a repetition can match the empty string.
C20_Terminates ==
    (Parsed /\ ~LeftRecursive /\ ~NullableCandidate)
    => out.ses.status \notin {"loop", "overflow"}


----------------------------------------------------------------------------
(* C22 *)

\* the counters that event k shows are those that event j shows
SameCounters(j, k) ==
    /\ Trace[k].noSkip = Trace[j].noSkip
    /\ Trace[k].depth = Trace[j].depth
    /\ Trace[k].debug = Trace[j].debug

\* some invocation of the stack st is running the rule of an Adjacent parser
InAdjacent(st) ==
    \E i \in 1..Len(st) : st[i].parsing /\ parsers[Trace[st[i].call].node].adjacent

RECURSIVE Balanced(_, _)

\* from event k on, st being the invocations that are running (the event of
\* the entry of each, and whether its rule has been entered): every return
\* shows the counters of its entry, and every skip made while no rule of an
\* Adjacent parser is running takes all the leading white space
Balanced(k, st) ==
    IF k > Len(Trace) THEN TRUE
    ELSE CASE Trace[k].ev = "call" ->
                 Balanced(k + 1, Append(st, [call |-> k, parsing |-> FALSE]))
           [] Trace[k].ev = "parse" ->
                 Balanced(k + 1, [st EXCEPT ![Len(st)].parsing = TRUE])
           [] Trace[k].ev = "ret" ->
                 /\ SameCounters(st[Len(st)].call, k)
                 /\ Balanced(k + 1, SubSeq(st, 1, Len(st) - 1))
           [] Trace[k].ev = "skip" ->
                 /\ InAdjacent(st) \/ Trace[k].space = LeadingSpace(Trace[k].input)
                 /\ Balanced(k + 1, st)
           [] OTHER -> Balanced(k + 1, st)

\* Sequence(Sequence("a", "b").Adjacent(), "c")
AdjacentExample ==
    << Literal(<<"a">>), Literal(<<"b">>), Literal(<<"c">>),
       Adjacent(Sequence(<<1, 2>>)), Sequence(<<4, 3>>) >>

\* the outer Sequence matches "ab c", all of it
ExampleMatches ==
    /\ Parse(AdjacentExample, 5, <<"a", "b", " ", "c">>).match
    /\ Parse(AdjacentExample, 5, <<"a", "b", " ", "c">>).used = 4

\* C22: at every return of an invocation, noSkip, depth and debug are those of
\* its entry; noSkip is never negative; an invocation made while no rule of an
\* Adjacent parser is running skips all the leading white space, so that
\* Sequence(Sequence("a", "b").Adjacent(), "c") matches "ab c" (a fact about
\* the engine alone, evaluated once, before the client has constructed a parser).
C22_CountersBalanced ==
    /\ Parsed =>
          /\ Balanced(1, <<>>)
          /\ \A k \in 1..Len(Trace) : Trace[k].noSkip >= 0
    /\ parsers = <<>> => ExampleMatches

\* a Sequence matched whose first child is Adjacent and has returned, and a
\* later child skipped white space
C22_Witness ==
    /\ Returned /\ out.match /\ RootParser.parse = "Sequence"
    /\ RootParser.delegate = 0 /\ ~RootParser.adjacent
    /\ Len(Kids) = 2 /\ parsers[Kids[1]].adjacent
    /\ \E j \in 1..Len(Trace), k \in 1..Len(Trace) :
          /\ j < k
          /\ Trace[j].ev = "ret" /\ Trace[j].node = Kids[1] /\ Trace[j].match
          /\ Trace[j].depth = 1
          /\ Trace[k].ev = "skip" /\ Trace[k].space > 0

----------------------------------------------------------------------------
(* C23 *)

\* C23: every invocation that returns reports a consumed length between 0 and
\* the length of the input it was given on entry, leading white space included.
C23_ConsumedWithinInput ==
    Parsed =>
       \A k \in 1..Len(Trace) :
          Trace[k].ev = "ret" =>
             /\ Trace[k].used >= 0
             /\ Trace[k].used <= Len(Trace[k].input)

\* a Sequence of two children consumed all of an input that begins with white
\* space: its second child was given, and consumed, the last of it
C23_Witness ==
    /\ Returned /\ out.match /\ RootParser.parse = "Sequence"
    /\ RootParser.delegate = 0 /\ Len(Kids) = 2
    /\ text # <<>> /\ IsSpace(text[1]) /\ out.used = Len(text)
    /\ \E k \in 1..Len(Trace) :
          /\ Trace[k].ev = "ret" /\ Trace[k].node = Kids[2] /\ Trace[k].depth = 1
          /\ Trace[k].used > 0 /\ Trace[k].used = Len(Trace[k].input)

----------------------------------------------------------------------------
(* C24 *)

IsAnyOf(p) == parsers[p].parse = "AnyOf" /\ parsers[p].delegate = 0

\* event k is the entry of an invocation of an AnyOf parser on input that is
\* empty once the white space to be skipped is taken off
AnyOfOnNothing(k) ==
    /\ Trace[k].ev = "call" /\ IsAnyOf(Trace[k].node)
    /\ (IF Trace[k].noSkip = 0 THEN LeadingSpace(Trace[k].input) ELSE 0)
          = Len(Trace[k].input)

\* C24: the rule of an AnyOf parser is never entered with empty input; an
\* invocation of an AnyOf parser on empty input is rejected before the rule
\* runs and returns without a match.
C24_AnyOfNeverOnEmpty ==
    Parsed =>
       /\ \A k \in 1..Len(Trace) :
             (Trace[k].ev = "parse" /\ IsAnyOf(Trace[k].node))
             => Trace[k].input # <<>>
       /\ \A k \in 1..Len(Trace) :
             AnyOfOnNothing(k) =>
                /\ k + 2 <= Len(Trace)
                /\ Trace[k + 1].ev = "skip"
                /\ Trace[k + 2].ev = "ret" /\ Trace[k + 2].node = Trace[k].node
                /\ ~Trace[k + 2].match

\* inside an adjacency region an AnyOf parser was invoked on the empty input
\* that the child before it had left, and returned without a match
C24_Witness ==
    /\ Returned /\ RootParser.parse = "Sequence" /\ RootParser.adjacent
    /\ \E k \in 2..Len(Trace) :
          /\ AnyOfOnNothing(k) /\ Trace[k].input = <<>> /\ Trace[k].noSkip > 0
          /\ Trace[k - 1].ev = "ret" /\ Trace[k - 1].match /\ Trace[k - 1].used > 0
          /\ Trace[k + 2].ev = "ret" /\ ~Trace[k + 2].match

----------------------------------------------------------------------------
(* C21 *)

\* the handler of the call of goroutine g has run
HandlerRan(g) ==
    calls[g].pc = "done" /\ calls[g].match /\ parsers[PegRoot].handler # NoHandler

\* the span the call of goroutine g matched
OwnText(g) ==
    Str(SubSeq(calls[g].input, calls[g].space + 1, calls[g].used))

\* C21: in src/peg.go, when two Parse calls on the same parser interleave, the
\* Text() and the Get(0) that the handler of a call reads are the matched span
\* and the result of that call.
C21_HandlerReadsOwnCall ==
    \A g \in Goroutines :
       HandlerRan(g) =>
          /\ InfoText(calls[g].seen) = OwnText(g)
          /\ calls[g].seen.result = Nil
====
